---- MODULE Spec2Model ----
(***************************************************************************)
(* Daily Word API (src/main.py, src/loader.py): two word pools stored in   *)
(* one SQLite database, a transactional pick-and-mark operation, a daily   *)
(* job and a force entry point that record the word of the day, read-only  *)
(* queries and a bulk import.                                              *)
(***************************************************************************)
EXTENDS Integers, Sequences, FiniteSets, TLC

\* ------------------------------------------------------------------ bounds
NumProcs == 2        \* calls of the job and the force handler running concurrently
MaxDay == 2          \* UTC calendar days the clock runs through
MaxFileLen == 2      \* lines of an imported file
MaxCalls == 3        \* requests a sequential client sends in one run
MaxImports == 2      \* imports executed in one run
MaxFailures == 1     \* storage errors raised in one run

Procs == 1..NumProcs
Days == 1..MaxDay
Pools == {"en", "he"}

\* Lines a word file may contain: characters are one-letter strings, " " is
\* whitespace (blank, newline).
Lines == { <<" ", "A">>, <<"b", " ">>, <<" ">> }

RECURSIVE SeqsUpTo(_, _)
SeqsUpTo(S, n) ==
  IF n = 0 THEN { <<>> }
  ELSE LET shorter == SeqsUpTo(S, n - 1)
       IN shorter \cup { Append(f, x) : f \in { g \in shorter : Len(g) = n - 1 }, x \in S }

Files == SeqsUpTo(Lines, MaxFileLen)

\* words.txt / words_hebrew.txt as found at start-up: one word or two.
StartFiles == { << <<" ", "A">> >>, << <<" ", "A">>, <<"b", " ">> >> }

\* Texts a caller may pass to the existence check.
QueryTexts == { <<"a">>, <<"A">>, <<" ", "a">>, <<"B", " ">> }

VARIABLES
  words,      \* words[p]: rows of table words / words_hebrew, index = id
  daily,      \* daily[p]: rows of table daily_words / daily_words_hebrew
  clock,      \* current UTC date, datetime.utcnow().date()
  lock,       \* holder of the SQLite write lock of words.db, 0 when free
  pc,         \* pc[i]: position of thread i
  op,         \* op[i]: the operation thread i runs
  pool,       \* pool[i]: the pool that operation works on
  today_str,  \* local today_str of the job / force handler
  row,        \* id of the row fetched inside pick_and_mark_unused, 0 if none
  now,        \* local now of pick_and_mark_unused, 0 before it is computed
  ret,        \* outcome of the finished operation
  calls,      \* requests and job firings started so far
  imports,    \* imports executed so far
  failures,   \* storage errors raised so far
  obs         \* history of call i: the calls that had finished when it
              \* started, whether the ledger had a row for its date at its
              \* lookup, and what the ledger held for its date when it finished

vars == <<words, daily, clock, lock, pc, op, pool, today_str, row, now, ret,
          calls, imports, failures, obs>>
db == <<words, daily>>
locals == <<pc, op, pool, today_str, row, now, ret, obs>>

\* ------------------------------------------------------------ text helpers
IsSpace(c) == c = " "

lower_char(c) == CASE c = "A" -> "a" [] c = "B" -> "b" [] OTHER -> c

\* str.lower()
lower(s) == [k \in 1..Len(s) |-> lower_char(s[k])]

RECURSIVE lstrip(_)
lstrip(s) == IF s # <<>> /\ IsSpace(Head(s)) THEN lstrip(Tail(s)) ELSE s

RECURSIVE rstrip(_)
rstrip(s) ==
  IF s # <<>> /\ IsSpace(s[Len(s)]) THEN rstrip(SubSeq(s, 1, Len(s) - 1)) ELSE s

\* str.strip()
strip(s) == rstrip(lstrip(s))

\* ------------------------------------------------------------ table helpers
NoWord == [id |-> 0, word |-> <<>>, used |-> FALSE, used_at |-> 0]

\* WordOut / WordOutHeb built from a stored row
RowOut(ws, id) ==
  [id |-> id, word |-> ws[id].word, used |-> ws[id].used = 1, used_at |-> ws[id].used_at]

\* faulty variant: the SELECT has no WHERE clause
UnusedIds_All(ws) == DOMAIN ws

\* SELECT id FROM words WHERE used = 0
UnusedIds(ws) == { k \in DOMAIN ws : ws[k].used = 0 }

\* faulty variant: the UPDATE stamps used_at and leaves the used flag alone
MarkUsed_DateOnly(ws, id, d) ==
  [k \in DOMAIN ws |-> IF k = id THEN [ws[k] EXCEPT !.used_at = d] ELSE ws[k]]

\* UPDATE words SET used = 1, used_at = ? WHERE id = ?
MarkUsed(ws, id, d) ==
  [k \in DOMAIN ws |-> IF k = id THEN [ws[k] EXCEPT !.used = 1, !.used_at = d] ELSE ws[k]]

\* faulty variant: a plain INSERT into a table whose date is no key
InsertOrReplace_Append(rows, d, id) == rows \cup { [date |-> d, word_id |-> id] }

\* faulty variant: the row stores the id that follows the given one
InsertOrReplace_OffByOne(rows, d, id) ==
  { r \in rows : r.date # d } \cup { [date |-> d, word_id |-> id + 1] }

\* faulty variant: INSERT OR IGNORE, which keeps the row the date already has
InsertOrReplace_Ignore(rows, d, id) ==
  IF \E r \in rows : r.date = d THEN rows
  ELSE rows \cup { [date |-> d, word_id |-> id] }

\* INSERT OR REPLACE INTO daily_words (date, word_id): date is the primary key
InsertOrReplace(rows, d, id) ==
  { r \in rows : r.date # d } \cup { [date |-> d, word_id |-> id] }

\* faulty variant: the lookup asks for the day after the given date
DailyJoin_NextDay(rows, ws, d) ==
  { r \in rows : r.date = d + 1 /\ r.word_id \in DOMAIN ws }

\* SELECT ... FROM daily_words d JOIN words w ON w.id = d.word_id WHERE d.date = ?
DailyJoin(rows, ws, d) ==
  { r \in rows : r.date = d /\ r.word_id \in DOMAIN ws }

\* faulty variant: a plain INSERT into a table whose word is not UNIQUE
InsertOrIgnore_Always(ws, w) == Append(ws, [word |-> w, used |-> 0, used_at |-> 0])

\* INSERT OR IGNORE INTO words (word): word is UNIQUE, id AUTOINCREMENT
InsertOrIgnore(ws, w) ==
  IF \E k \in DOMAIN ws : ws[k].word = w THEN ws
  ELSE Append(ws, [word |-> w, used |-> 0, used_at |-> 0])

\* the normalisation each import applies to a line
NormalizeLine(p, line) == IF p = "en" THEN lower(strip(line)) ELSE strip(line)

RECURSIVE ImportLines(_, _, _)
ImportLines(ws, p, f) ==
  IF f = <<>> THEN ws
  ELSE LET word == NormalizeLine(p, Head(f))
       IN ImportLines(IF word # <<>> THEN InsertOrIgnore(ws, word) ELSE ws, p, Tail(f))


\* rows of daily_words joined with words, ORDER BY d.date DESC LIMIT n
RECURSIVE HistoryDesc(_, _, _)
HistoryDesc(rows, ws, n) ==
  LET joined == { r \in rows : r.word_id \in DOMAIN ws }
  IN IF joined = {} \/ n = 0 THEN <<>>
     ELSE LET r == CHOOSE x \in joined : \A y \in joined : y.date <= x.date
          IN <<[date |-> r.date, word |-> ws[r.word_id].word]>>
             \o HistoryDesc(joined \ {r}, ws, n - 1)

HistoryLimit == 10

RECURSIVE SumUsed(_)
SumUsed(ws) == IF ws = <<>> THEN 0 ELSE Head(ws).used + SumUsed(Tail(ws))

\* ------------------------------------------------------------------ state
Ret(kind, log, word, val) == [kind |-> kind, log |-> log, word |-> word, val |-> val]
NoRet == Ret("none", "", NoWord, 0)

\* word ids the ledger rows hold for date d
LedgerIds(rows, d) == { r.word_id : r \in { x \in rows : x.date = d } }

NoObs == [after |-> {}, found |-> FALSE, ledger |-> {}]

\* what does not depend on the word files
InitRest ==
  /\ daily = [p \in Pools |-> {}]
  /\ clock = 1
  /\ lock = 0
  /\ pc = [i \in Procs |-> "idle"]
  /\ op = [i \in Procs |-> "none"]
  /\ pool = [i \in Procs |-> "en"]
  /\ today_str = [i \in Procs |-> 0]
  /\ row = [i \in Procs |-> 0]
  /\ now = [i \in Procs |-> 0]
  /\ ret = [i \in Procs |-> NoRet]
  /\ calls = 0
  /\ imports = 0
  /\ failures = 0
  /\ obs = [i \in Procs |-> NoObs]

\* the tables right after init_db(): a fresh database
InitApi ==
  /\ words = [p \in Pools |-> <<>>]
  /\ InitRest

\* the server is up: init_db() and the two start-up imports at the end of
\* main.py have run on a fresh database
Init ==
  /\ \E f \in [Pools -> StartFiles] :
       words = [p \in Pools |-> ImportLines(<<>>, p, f[p])]
  /\ InitRest

\* sqlite3 raises an error (database is locked, disk I/O error, ...)
StorageError ==
  /\ failures < MaxFailures
  /\ failures' = failures + 1

\* call i starts: a request reaches its handler, or the scheduler fires a job
Accept(i, o, p) ==
  /\ pc[i] = "idle"
  /\ calls' = calls + 1
  /\ op' = [op EXCEPT ![i] = o]
  /\ pool' = [pool EXCEPT ![i] = p]

\* faulty variant: the job has no handler for the HTTPException of the pick
Outcome_NoHttpHandler(o, exc, inTry) ==
  IF o = "job"
  THEN IF inTry /\ exc # "HTTP404"
       THEN Ret("return", "error", NoWord, 0)
       ELSE Ret("raise", "", NoWord, 0)
  ELSE Ret(IF exc = "HTTP404" THEN "http404" ELSE "http500", "", NoWord, 0)

\* How an exception leaves the running operation.  exc is "HTTP404" (the
\* HTTPException of the pick) or "Storage" (any sqlite3 error); inTry tells
\* whether the job's try block has been entered.
Outcome(o, exc, inTry) ==
  IF o = "job"
  THEN IF inTry
       THEN Ret("return", IF exc = "HTTP404" THEN "detail" ELSE "error", NoWord, 0)
       ELSE Ret("raise", "", NoWord, 0)
  ELSE Ret(IF exc = "HTTP404" THEN "http404" ELSE "http500", "", NoWord, 0)

\* the calls that had finished when call i started
After(i) == IF pc[i] = "idle" THEN { k \in Procs : pc[k] = "done" } ELSE obs[i].after

\* call i ends with outcome r (last conjunct of a step: it records the ledger
\* as the step leaves it)
Finish(i, r, fnd) ==
  /\ pc' = [pc EXCEPT ![i] = "done"]
  /\ ret' = [ret EXCEPT ![i] = r]
  /\ obs' = [obs EXCEPT ![i] = [after |-> After(i), found |-> fnd,
                                ledger |-> LedgerIds(daily'[pool'[i]], today_str'[i])]]

\* faulty variant: the connection stays open and keeps its write lock
ReleaseLock_Leak(i) == lock' = lock

\* the connection of call i is closed: a write lock it holds is released
ReleaseLock(i) == lock' = IF lock = i THEN 0 ELSE lock

\* ------------------------------------------- the job and the force handler
\* faulty variant: the handler picks and saves whatever the lookup returns
EnsureLookup_Always(i, o, p) ==
  /\ Accept(i, o, p)
  /\ today_str' = [today_str EXCEPT ![i] = clock]
  /\ UNCHANGED <<words, daily, clock, lock, row, now, imports, failures>>
  /\ pc' = [pc EXCEPT ![i] = "begin"]
  /\ obs' = [obs EXCEPT ![i] = [after |-> After(i),
                                found |-> LedgerIds(daily[p], clock) # {},
                                ledger |-> {}]]
  /\ UNCHANGED ret

\* choose_daily_word_job / api_force_today_choice: today_str and the lookup
EnsureLookup(i, o, p) ==
  /\ Accept(i, o, p)
  /\ today_str' = [today_str EXCEPT ![i] = clock]
  /\ UNCHANGED <<words, daily, clock, lock, row, now, imports, failures>>
  /\ LET found == DailyJoin(daily[p], words[p], clock)
     IN IF found # {}
        THEN \E r \in found :
               Finish(i, Ret("return", IF o = "job" THEN "already" ELSE "",
                             RowOut(words[p], r.word_id), 0), TRUE)
        ELSE /\ pc' = [pc EXCEPT ![i] = "begin"]
             /\ obs' = [obs EXCEPT ![i] = [after |-> After(i),
                                           found |-> LedgerIds(daily[p], clock) # {},
                                           ledger |-> {}]]
             /\ UNCHANGED ret

\* the lookup fails with a storage error
EnsureLookupFail(i, o, p) ==
  /\ Accept(i, o, p)
  /\ StorageError
  /\ today_str' = [today_str EXCEPT ![i] = clock]
  /\ UNCHANGED <<words, daily, clock, lock, row, now, imports>>
  /\ Finish(i, Outcome(o, "Storage", FALSE), LedgerIds(daily[p], clock) # {})

\* faulty variant: a deferred BEGIN, which takes no lock before the SELECT
PickBegin_Deferred(i) ==
  /\ pc[i] = "begin"
  /\ pc' = [pc EXCEPT ![i] = "select"]
  /\ UNCHANGED <<words, daily, clock, lock, op, pool, today_str, row, now, ret,
                 calls, imports, failures, obs>>

\* pick_and_mark_unused: BEGIN IMMEDIATE
PickBegin(i) ==
  /\ pc[i] = "begin"
  /\ lock = 0
  /\ lock' = i
  /\ pc' = [pc EXCEPT ![i] = "select"]
  /\ UNCHANGED <<words, daily, clock, op, pool, today_str, row, now, ret,
                 calls, imports, failures, obs>>

\* pick_and_mark_unused: the SELECT of one unused row, now, and the UPDATE
\* of that row, which stays uncommitted
PickSelect(i) ==
  /\ pc[i] = "select"
  /\ UNCHANGED <<words, daily, clock, op, pool, today_str, calls, imports, failures>>
  /\ LET unused == UnusedIds(words[pool[i]])
     IN IF unused = {}
        THEN /\ ReleaseLock(i)
             /\ UNCHANGED <<row, now>>
             /\ Finish(i, Outcome(op[i], "HTTP404", TRUE), obs[i].found)
        ELSE /\ \E id \in unused : row' = [row EXCEPT ![i] = id]
             /\ now' = [now EXCEPT ![i] = clock]
             /\ pc' = [pc EXCEPT ![i] = "commit"]
             /\ UNCHANGED <<ret, lock, obs>>

\* faulty variant: the Hebrew pick commits its UPDATE on the English table
PickCommit_WrongTable(i) ==
  /\ pc[i] = "commit"
  /\ words' = [words EXCEPT !["en"] = MarkUsed(@, row[i], now[i])]
  /\ ReleaseLock(i)
  /\ pc' = [pc EXCEPT ![i] = "save"]
  /\ UNCHANGED <<daily, clock, op, pool, today_str, row, now, ret,
                 calls, imports, failures, obs>>

\* faulty variant: the transaction commits without its UPDATE
PickCommit_NoUpdate(i) ==
  /\ pc[i] = "commit"
  /\ ReleaseLock(i)
  /\ pc' = [pc EXCEPT ![i] = "save"]
  /\ UNCHANGED <<words, daily, clock, op, pool, today_str, row, now, ret,
                 calls, imports, failures, obs>>

\* pick_and_mark_unused: COMMIT
PickCommit(i) ==
  /\ pc[i] = "commit"
  /\ words' = [words EXCEPT ![pool[i]] = MarkUsed(@, row[i], now[i])]
  /\ ReleaseLock(i)
  /\ pc' = [pc EXCEPT ![i] = "save"]
  /\ UNCHANGED <<daily, clock, op, pool, today_str, row, now, ret,
                 calls, imports, failures, obs>>

\* faulty variant: no rollback, a failing COMMIT leaves the UPDATE in place
PickFail_NoRollback(i) ==
  /\ pc[i] \in {"begin", "select", "commit"}
  /\ StorageError
  /\ ReleaseLock(i)
  /\ row' = [row EXCEPT ![i] = 0]
  /\ now' = [now EXCEPT ![i] = 0]
  /\ words' = IF pc[i] = "commit"
              THEN [words EXCEPT ![pool[i]] = MarkUsed(@, row[i], now[i])]
              ELSE words
  /\ UNCHANGED <<daily, clock, op, pool, today_str, calls, imports>>
  /\ Finish(i, Outcome(op[i], "Storage", TRUE), obs[i].found)

\* pick_and_mark_unused: a storage error at BEGIN, at the SELECT or UPDATE, or
\* at COMMIT; the except clause rolls back and re-raises, finally closes the
\* connection
PickFail(i) ==
  /\ pc[i] \in {"begin", "select", "commit"}
  /\ StorageError
  /\ ReleaseLock(i)
  /\ row' = [row EXCEPT ![i] = 0]
  /\ now' = [now EXCEPT ![i] = 0]
  /\ UNCHANGED <<words, daily, clock, op, pool, today_str, calls, imports>>
  /\ Finish(i, Outcome(op[i], "Storage", TRUE), obs[i].found)

\* pick_and_mark_unused has returned to call i
Picked(i) == pc[i] \in {"save", "save_commit", "done"} /\ row[i] # 0

\* the WordOut that pick_and_mark_unused returned to call i
Chosen(i) ==
  [id |-> row[i], word |-> words[pool[i]][row[i]].word, used |-> TRUE, used_at |-> now[i]]

\* save_daily_word: the INSERT OR REPLACE inside "with conn", not yet committed
SaveInsert(i) ==
  /\ pc[i] = "save"
  /\ lock = 0
  /\ lock' = i
  /\ pc' = [pc EXCEPT ![i] = "save_commit"]
  /\ UNCHANGED <<words, daily, clock, op, pool, today_str, row, now, ret,
                 calls, imports, failures, obs>>

\* faulty variant: the force handler returns the picked word without saving it
SaveCommit_ForceSkipsLedger(i) ==
  /\ pc[i] = "save_commit"
  /\ daily' = IF op[i] = "force" THEN daily
              ELSE [daily EXCEPT ![pool[i]] = InsertOrReplace(@, today_str[i], row[i])]
  /\ ReleaseLock(i)
  /\ UNCHANGED <<words, clock, op, pool, today_str, row, now, calls, imports, failures>>
  /\ Finish(i, Ret("return", IF op[i] = "job" THEN "chosen" ELSE "", Chosen(i), 0),
            obs[i].found)

\* save_daily_word: the commit at the end of "with conn"
SaveCommit(i) ==
  /\ pc[i] = "save_commit"
  /\ daily' = [daily EXCEPT ![pool[i]] = InsertOrReplace(@, today_str[i], row[i])]
  /\ ReleaseLock(i)
  /\ UNCHANGED <<words, clock, op, pool, today_str, row, now, calls, imports, failures>>
  /\ Finish(i, Ret("return", IF op[i] = "job" THEN "chosen" ELSE "", Chosen(i), 0),
            obs[i].found)

\* faulty variant: no rollback, the failed write leaves its row in the ledger
SaveFail_NoRollback(i) ==
  /\ pc[i] \in {"save", "save_commit"}
  /\ StorageError
  /\ ReleaseLock(i)
  /\ daily' = [daily EXCEPT ![pool[i]] = InsertOrReplace(@, today_str[i], row[i])]
  /\ UNCHANGED <<words, clock, op, pool, today_str, row, now, calls, imports>>
  /\ Finish(i, Outcome(op[i], "Storage", TRUE), obs[i].found)

\* save_daily_word: a storage error at the INSERT or at the commit
SaveFail(i) ==
  /\ pc[i] \in {"save", "save_commit"}
  /\ StorageError
  /\ ReleaseLock(i)
  /\ UNCHANGED <<words, daily, clock, op, pool, today_str, row, now, calls, imports>>
  /\ Finish(i, Outcome(op[i], "Storage", TRUE), obs[i].found)

\* the client has the outcome of its request and sends the next one
NextRequest(i) ==
  /\ pc[i] = "done"
  /\ calls < MaxCalls
  /\ pc' = [pc EXCEPT ![i] = "idle"]
  /\ op' = [op EXCEPT ![i] = "none"]
  /\ pool' = [pool EXCEPT ![i] = "en"]
  /\ today_str' = [today_str EXCEPT ![i] = 0]
  /\ row' = [row EXCEPT ![i] = 0]
  /\ now' = [now EXCEPT ![i] = 0]
  /\ ret' = [ret EXCEPT ![i] = NoRet]
  /\ obs' = [obs EXCEPT ![i] = NoObs]
  /\ UNCHANGED <<words, daily, clock, lock, calls, imports, failures>>

\* ------------------------------------------------------------------ queries
\* a query is one read; call i ends with outcome r and nothing else changes
Reply(i, o, p, r) ==
  /\ Accept(i, o, p)
  /\ today_str' = [today_str EXCEPT ![i] = IF o = "today" THEN clock ELSE 0]
  /\ UNCHANGED <<words, daily, clock, lock, row, now, imports, failures>>
  /\ Finish(i, r, FALSE)

\* faulty variant: the random lookup marks the word it returns as used
RandomWord_Marking(i, p) ==
  /\ words[p] # <<>>
  /\ Accept(i, "random", p)
  /\ today_str' = [today_str EXCEPT ![i] = 0]
  /\ \E id \in DOMAIN words[p] :
       /\ words' = [words EXCEPT ![p] = MarkUsed(@, id, clock)]
       /\ UNCHANGED <<daily, clock, lock, row, now, imports, failures>>
       /\ Finish(i, Ret("return", "", RowOut(words[p], id), 0), FALSE)

\* get_random_word_from_all / get_random_word_hebrew
RandomWord(i, p) ==
  IF words[p] = <<>>
  THEN Reply(i, "random", p, Ret("http404", "", NoWord, 0))
  ELSE \E id \in DOMAIN words[p] :
         Reply(i, "random", p, Ret("return", "", RowOut(words[p], id), 0))

\* get_today_word / get_today_word_hebrew
TodayWord(i, p) ==
  LET found == DailyJoin(daily[p], words[p], clock)
  IN IF found = {}
     THEN Reply(i, "today", p, Ret("return", "", NoWord, 0))
     ELSE \E r \in found :
            Reply(i, "today", p, Ret("return", "", RowOut(words[p], r.word_id), 0))

\* faulty variant: the English check forgets to lowercase its argument
word_exists_english_NoLower(ws, word) ==
  \E k \in DOMAIN ws : ws[k].word = strip(word)

\* word_exists_english
word_exists_english(ws, word) ==
  \E k \in DOMAIN ws : ws[k].word = lower(strip(word))

\* word_exists_hebrew
word_exists_hebrew(ws, word) ==
  \E k \in DOMAIN ws : ws[k].word = strip(word)

\* api_word_exists_english / api_word_exists_hebrew
WordExists(i, p, t) ==
  Reply(i, "exists", p,
        Ret("return", "", NoWord,
            [arg |-> t,
             found |-> IF p = "en" THEN word_exists_english(words[p], t)
                       ELSE word_exists_hebrew(words[p], t)]))

\* api_stats (English pool only)
StatsOf(ws, rows) ==
  [total |-> Len(ws), used |-> SumUsed(ws), unused |-> Len(ws) - SumUsed(ws),
   last_10_days |-> HistoryDesc(rows, ws, HistoryLimit)]

Stats(i) ==
  Reply(i, "stats", "en", Ret("return", "", NoWord, StatsOf(words["en"], daily["en"])))

\* a query whose read fails with a storage error
QueryFail(i, o, p) ==
  /\ o = "stats" => p = "en"
  /\ StorageError
  /\ Accept(i, o, p)
  /\ today_str' = [today_str EXCEPT ![i] = IF o = "today" THEN clock ELSE 0]
  /\ UNCHANGED <<words, daily, clock, lock, row, now, imports>>
  /\ Finish(i, Ret("http500", "", NoWord, 0), FALSE)

\* ------------------------------------------------------------------- import
\* import_words_from_file / import_hebrew_words: one transaction over the file
Import(p, f) ==
  /\ lock = 0
  /\ imports < MaxImports
  /\ imports' = imports + 1
  /\ words' = [words EXCEPT ![p] = ImportLines(@, p, f)]
  /\ UNCHANGED <<daily, clock, lock, locals, calls, failures>>

\* loader.seed: strips and lowercases the non-blank lines, then inserts them
RECURSIVE SeedWords(_)
SeedWords(f) ==
  IF f = <<>> THEN <<>>
  ELSE (IF strip(Head(f)) # <<>> THEN <<lower(strip(Head(f)))>> ELSE <<>>)
       \o SeedWords(Tail(f))

RECURSIVE SeedInsert(_, _)
SeedInsert(ws, list) ==
  IF list = <<>> THEN ws ELSE SeedInsert(InsertOrIgnore(ws, Head(list)), Tail(list))

Seed(f) ==
  /\ lock = 0
  /\ imports < MaxImports
  /\ imports' = imports + 1
  /\ words' = [words EXCEPT !["en"] = SeedInsert(@, SeedWords(f))]
  /\ UNCHANGED <<daily, clock, lock, locals, calls, failures>>

\* the UTC date advances
Tick ==
  /\ clock < MaxDay
  /\ clock' = clock + 1
  /\ UNCHANGED <<words, daily, lock, locals, calls, imports, failures>>

\* ----------------------------------------------------------- specifications
\* steps of the job and of the force handler, by any call
Ensure ==
  \/ \E i \in Procs, o \in {"job", "force"}, p \in Pools : EnsureLookup(i, o, p)
  \/ \E i \in Procs, o \in {"job", "force"}, p \in Pools : EnsureLookupFail(i, o, p)
  \/ \E i \in Procs : PickBegin(i)
  \/ \E i \in Procs : PickSelect(i)
  \/ \E i \in Procs : PickCommit(i)
  \/ \E i \in Procs : PickFail(i)
  \/ \E i \in Procs : SaveInsert(i)
  \/ \E i \in Procs : SaveCommit(i)
  \/ \E i \in Procs : SaveFail(i)

\* NumProcs calls of the job and the force handler run concurrently on the
\* started server while the date advances.
Next ==
  \/ Ensure
  \/ Tick

Spec == Init /\ [][Next]_vars

\* the steps call i takes by itself once it has passed its lookup
Running(i) ==
  \/ PickBegin(i)
  \/ PickSelect(i)
  \/ PickCommit(i)
  \/ SaveInsert(i)
  \/ SaveCommit(i)

\* The same calls, each running in a thread that is scheduled again and again:
\* a call whose next statement can execute does execute it or fails.
SpecFair == Init /\ [][Next]_vars /\ \A i \in Procs : WF_vars(Running(i))

\* One client uses the whole API on a fresh database, one request after the
\* other, with imports of arbitrary files in between.
ApiThread == CHOOSE i \in Procs : \A j \in Procs : i <= j

NextApi ==
  \/ \E o \in {"job", "force"}, p \in Pools : EnsureLookup(ApiThread, o, p)
  \/ \E o \in {"job", "force"}, p \in Pools : EnsureLookupFail(ApiThread, o, p)
  \/ PickBegin(ApiThread)
  \/ PickSelect(ApiThread)
  \/ PickCommit(ApiThread)
  \/ PickFail(ApiThread)
  \/ SaveInsert(ApiThread)
  \/ SaveCommit(ApiThread)
  \/ SaveFail(ApiThread)
  \/ NextRequest(ApiThread)
  \/ \E p \in Pools : RandomWord(ApiThread, p)
  \/ \E p \in Pools : TodayWord(ApiThread, p)
  \/ \E p \in Pools, t \in QueryTexts : WordExists(ApiThread, p, t)
  \/ Stats(ApiThread)
  \/ \E o \in {"random", "today", "exists", "stats"}, p \in Pools : QueryFail(ApiThread, o, p)
  \/ \E p \in Pools, f \in Files : Import(p, f)
  \/ \E f \in Files : Seed(f)
  \/ Tick

SpecApi == InitApi /\ [][NextApi]_vars

\* Word files are imported into a database on which the job and the force
\* handler run, one call after the other.
NextImport ==
  \/ \E p \in Pools, f \in Files : Import(p, f)
  \/ \E f \in Files : Seed(f)
  \/ \E p \in Pools : EnsureLookup(ApiThread, "force", p)
  \/ PickBegin(ApiThread)
  \/ PickSelect(ApiThread)
  \/ PickCommit(ApiThread)
  \/ SaveInsert(ApiThread)
  \/ SaveCommit(ApiThread)
  \/ NextRequest(ApiThread)
  \/ Tick

SpecImport == InitApi /\ [][NextImport]_vars

TypeOK ==
  /\ clock \in Days
  /\ lock \in 0..NumProcs
  /\ imports \in 0..MaxImports
  /\ failures \in 0..MaxFailures

\* ------------------------------------------------------------------ claims
Ensures == {"job", "force"}
Queries == {"random", "today", "exists", "stats"}

Min(a, b) == IF a < b THEN a ELSE b

\* call i ended with the 404 of pick_and_mark_unused ("No unused words available")
EmptyPool(i) ==
  /\ pc[i] = "done"
  /\ op[i] \in Ensures
  /\ ret[i].kind = "http404" \/ ret[i].log = "detail"

\* call i ended with a storage error
StorageFailed(i) ==
  /\ pc[i] = "done"
  /\ ret[i].kind \in {"http500", "raise"} \/ ret[i].log = "error"

\* texts stored in pool p
Stored(p) == { words[p][k].word : k \in DOMAIN words[p] }

\* C1: for each pool and under every interleaving, the calls whose pick
\* succeeded hold pairwise distinct words, and of the calls whose pick has
\* completed (with a word or with the 404) exactly min(#calls, N) succeeded,
\* N being the words available at start-up: with N words and N+1 calls, N
\* calls succeed and one gets the 404.
C1_DistinctPicks ==
  \A p \in Pools :
    LET S == { i \in Procs : Picked(i) /\ pool[i] = p }
        E == { i \in Procs : EmptyPool(i) /\ pool[i] = p }
    IN /\ \A i \in S : \A j \in S : i # j => row[i] # row[j]
       /\ Cardinality(S) = Min(Cardinality(S \cup E), Len(words[p]))

\* two overlapping calls on a pool of one word: one got the word, the other the 404
C1_Witness ==
  \E i \in Procs : \E j \in Procs :
    /\ i # j /\ pool[i] = pool[j] /\ today_str[i] = today_str[j]
    /\ Len(words[pool[i]]) = 1
    /\ Picked(i) /\ pc[i] = "done"
    /\ EmptyPool(j)

\* C2: a successful pick returns a word that was unused before and is flagged
\* used in the committed table, with used = true in the returned record; a
\* used word stays in the table and stays used, so no later pick returns it;
\* the pick ends with the 404 exactly when no unused word is left.
C2_ConsumedForGood ==
  [][ /\ \A i \in Procs :
           (pc[i] = "commit" /\ pc'[i] = "save") =>
             /\ words[pool[i]][row[i]].used = 0
             /\ words'[pool[i]][row[i]].used = 1
             /\ (Chosen(i).used)'
      /\ \A i \in Procs :
           (pc[i] = "select" /\ pc'[i] = "commit") =>
             row'[i] \in UnusedIds(words[pool[i]])
      /\ \A i \in Procs :
           (pc[i] = "select" /\ pc'[i] = "done" /\ failures' = failures) =>
             UnusedIds(words[pool[i]]) = {}
      /\ \A p \in Pools : \A k \in DOMAIN words[p] :
           words[p][k].used = 1 =>
             k \in DOMAIN words'[p] /\ words'[p][k].used = 1
    ]_vars

\* the third request of the client gets the 404 on a pool of two words, both
\* of them consumed by the two picks before
C2_Witness ==
  \E i \in Procs :
    /\ EmptyPool(i)
    /\ calls = 3
    /\ Len(words[pool[i]]) = 2
    /\ UnusedIds(words[pool[i]]) = {}

\* call j of ensure_assignment started after call i for the same pool and
\* date had finished, and no other call ran in the meantime
Successive(i, j) ==
  /\ i # j
  /\ pc[i] = "done" /\ pc[j] = "done"
  /\ op[i] \in Ensures /\ op[j] \in Ensures
  /\ pool[i] = pool[j] /\ today_str[i] = today_str[j]
  /\ i \in obs[j].after
  /\ \A k \in Procs \ {i, j} : pc[k] = "idle" \/ k \in obs[i].after

\* a word the force entry point returned is the word the ledger held for its
\* date when it finished
ForceReturnsLedger(i) ==
  (op[i] = "force" /\ ret[i].kind = "return") => obs[i].ledger = {ret[i].word.id}

\* the second call left the ledger as the first left it and consumed no
\* word, and what the force entry point returned is the ledger's word, the
\* same record both times
Idempotent(i, j) ==
  /\ obs[j].ledger = obs[i].ledger
  /\ row[j] = 0
  /\ ForceReturnsLedger(i)
  /\ ForceReturnsLedger(j)
  /\ (op[i] = "force" /\ ret[i].kind = "return" /\ op[j] = "force" /\ ret[j].kind = "return")
       => ret[j] = ret[i]

C4_OneRowPerDate ==
  \A p \in Pools : \A r1 \in daily[p] : \A r2 \in daily[p] :
    r1.date = r2.date => r1 = r2

\* two calls both wrote the ledger for the same pool and date
C4_Witness ==
  \E i \in Procs : \E j \in Procs :
    /\ i # j /\ pool[i] = pool[j] /\ today_str[i] = today_str[j]
    /\ pc[i] = "done" /\ pc[j] = "done"
    /\ Picked(i) /\ Picked(j)
    /\ ret[i].kind = "return" /\ ret[j].kind = "return"
    /\ Cardinality(daily[pool[i]]) = 1

\* C5 as stated: a ledger row, once written, is never changed or removed by
\* any later step.
C5_Original ==
  [][ \A p \in Pools : \A r \in daily[p] : r \in daily'[p] ]_vars

\* C5 amended: a ledger row is changed only by the ledger write of a call
\* whose lookup ran before the row existed; a call whose lookup found the row
\* never changes it.
C5_RowChangedOnlyByEarlierLookup ==
  [][ \A p \in Pools : \A r \in daily[p] :
        r \notin daily'[p] =>
          \E i \in Procs :
            /\ pc[i] = "save_commit" /\ pc'[i] = "done"
            /\ pool[i] = p /\ today_str[i] = r.date
            /\ ~obs[i].found
    ]_vars

\* a call found the row of its date at its lookup and returned its word,
\* which the ledger still holds
C5_Witness ==
  \E i \in Procs :
    /\ pc[i] = "done" /\ op[i] \in Ensures
    /\ obs[i].found /\ ret[i].kind = "return"
    /\ LedgerIds(daily[pool[i]], today_str[i]) = {ret[i].word.id}

\* C6: no step of a call up to the pick's SELECT changes a table; when the
\* SELECT finds no unused word the call ends there, with no row picked, the
\* tables and the ledger of its date as they were, the 404 from the force
\* entry point, and a normal return with the logged detail from the job.
C6_EmptyPoolNoEffect ==
  [][ \A i \in Procs :
        /\ (pc'[i] # pc[i] /\ pc[i] \in {"idle", "begin", "select"}) =>
             (words' = words /\ daily' = daily)
        /\ (pc[i] = "select" /\ pc'[i] = "done" /\ failures' = failures) =>
             /\ UnusedIds(words[pool[i]]) = {}
             /\ row'[i] = 0
             /\ obs'[i].ledger = LedgerIds(daily[pool[i]], today_str[i])
             /\ ret'[i] = IF op[i] = "force"
                          THEN Ret("http404", "", NoWord, 0)
                          ELSE Ret("return", "detail", NoWord, 0)
    ]_vars

\* a job ended on an exhausted pool: it returned normally with the logged
\* detail and its date is unassigned
C6_Witness ==
  \E i \in Procs :
    /\ EmptyPool(i) /\ op[i] = "job"
    /\ ret[i] = Ret("return", "detail", NoWord, 0)
    /\ ~obs[i].found /\ obs[i].ledger = {}
    /\ LedgerIds(daily[pool[i]], today_str[i]) = {}

\* C7 as stated: whatever fails, the job returns normally.
C7_JobNeverRaises ==
  \A i \in Procs : (pc[i] = "done" /\ op[i] = "job") => ret[i].kind = "return"

Unique(ws) ==
  \A k1 \in DOMAIN ws : \A k2 \in DOMAIN ws : ws[k1].word = ws[k2].word => k1 = k2

ImportedTwice(w0, w1, w2) ==
  /\ w2 = w1
  /\ Len(w1) >= Len(w0)
  /\ SubSeq(w1, 1, Len(w0)) = w0
  /\ Unique(w1)

\* C8: word text is unique in each pool, and importing any file into the pool
\* as it stands, and then once more, leaves the same rows after the second
\* import as after the first, with every row that was there before (id, used
\* flag, used_at) unchanged; the same holds for loader.seed.
C8_ImportIdempotent ==
  /\ \A p \in Pools : Unique(words[p])
  /\ \A p \in Pools : \A f \in Files :
       LET w1 == ImportLines(words[p], p, f)
       IN ImportedTwice(words[p], w1, ImportLines(w1, p, f))
  /\ \A f \in Files :
       LET w1 == SeedInsert(words["en"], SeedWords(f))
       IN ImportedTwice(words["en"], w1, SeedInsert(w1, SeedWords(f)))

\* a second import has run on a pool that holds a consumed and an unused word
C8_Witness ==
  \E p \in Pools :
    /\ imports = 2
    /\ Len(words[p]) = 2
    /\ \E k \in DOMAIN words[p] : words[p][k].used = 1
    /\ \E k \in DOMAIN words[p] : words[p][k].used = 0

\* the step in which call i answers an existence check
ExistsStep(i) ==
  pc[i] = "idle" /\ pc'[i] = "done" /\ op'[i] = "exists" /\ ret'[i].kind = "return"

\* C9 as stated: English finds t exactly when the lowercase form of t is
\* stored, Hebrew exactly when t itself is stored.
C9_Original ==
  [][ \A i \in Procs :
        ExistsStep(i) =>
          ret'[i].val.found =
            IF pool'[i] = "en" THEN lower(ret'[i].val.arg) \in Stored("en")
            ELSE ret'[i].val.arg \in Stored("he")
    ]_vars

\* C9 amended: English finds t exactly when the lowercase form of t without
\* its leading and trailing whitespace is stored, Hebrew exactly when t
\* without its leading and trailing whitespace is stored.
C9_ExistsNormalized ==
  [][ \A i \in Procs :
        ExistsStep(i) =>
          ret'[i].val.found =
            IF pool'[i] = "en" THEN lower(strip(ret'[i].val.arg)) \in Stored("en")
            ELSE strip(ret'[i].val.arg) \in Stored("he")
    ]_vars

\* the English check found an upper-case text with trailing whitespace
C9_Witness ==
  \E i \in Procs :
    /\ pc[i] = "done" /\ op[i] = "exists" /\ pool[i] = "en"
    /\ ret[i].kind = "return"
    /\ ret[i].val.arg = <<"B", " ">>
    /\ ret[i].val.found

\* C10: the step of a query ends the query, takes no lock, starts no pick and
\* leaves the word tables and the ledgers of both pools unchanged.
C10_QueriesPure ==
  [][ \A i \in Procs :
        (pc[i] = "idle" /\ pc'[i] # "idle" /\ op'[i] \in Queries) =>
          /\ words' = words
          /\ daily' = daily
          /\ lock' = lock
          /\ pc'[i] = "done"
          /\ row'[i] = 0
    ]_vars

\* today's assignment has been queried and returned a consumed word
C10_Witness ==
  \E i \in Procs :
    /\ pc[i] = "done" /\ op[i] = "today"
    /\ ret[i].kind = "return" /\ ret[i].word.id # 0 /\ ret[i].word.used
    /\ LedgerIds(daily[pool[i]], today_str[i]) = {ret[i].word.id}

\* pool p is as the step found it: rows, used flags, used_at and ledger
SamePool(p) == words'[p] = words[p] /\ daily'[p] = daily[p]

\* C11: the pools are independent: every step of a call of the job or the
\* force handler (lookup, pick, ledger write) leaves the word table and the
\* ledger of the pool it does not work on unchanged, and an import changes the
\* word table of one pool at most and no ledger.
C11_PoolsIndependent ==
  [][ /\ \A i \in Procs :
           (pc'[i] # pc[i] /\ op'[i] \in Ensures) =>
             \A p \in Pools \ {pool'[i]} : SamePool(p)
      /\ imports' # imports =>
           /\ daily' = daily
           /\ \E p \in Pools : \A q \in Pools \ {p} : SamePool(q)
    ]_vars

\* a call has picked and saved a Hebrew word after an import into the Hebrew
\* pool, and the English pool still holds its words unused and no assignment
C11_Witness ==
  \E i \in Procs :
    /\ pc[i] = "done" /\ op[i] \in Ensures /\ pool[i] = "he"
    /\ Picked(i) /\ ret[i].kind = "return"
    /\ daily["he"] # {}
    /\ words["en"] # <<>> /\ UnusedIds(words["en"]) = DOMAIN words["en"]
    /\ daily["en"] = {}

\* the step commits the pick of row k of pool p
PickCommits(p, k) ==
  \E i \in Procs :
    pc[i] = "commit" /\ pc'[i] = "save" /\ pool[i] = p /\ row[i] = k

\* C12: in every step every stored word keeps its id and its text; a used
\* word keeps its flag and its used_at; an unused word either stays unused
\* with no used_at or becomes used in the commit of a pick of that very row.
C12_OneWayConsumption ==
  [][ \A p \in Pools : \A k \in DOMAIN words[p] :
        /\ k \in DOMAIN words'[p]
        /\ words'[p][k].word = words[p][k].word
        /\ words[p][k].used = 1 => words'[p][k] = words[p][k]
        /\ words[p][k].used = 0 =>
             \/ words'[p][k] = words[p][k] /\ words[p][k].used_at = 0
             \/ words'[p][k].used = 1 /\ PickCommits(p, k)
    ]_vars

\* a word consumed on the first day still carries that date on a later day,
\* after a second import into its pool and a query answered since
C12_Witness ==
  \E p \in Pools : \E k \in DOMAIN words[p] : \E i \in Procs :
    /\ words[p][k].used = 1 /\ words[p][k].used_at = 1
    /\ clock > 1
    /\ imports >= 2 /\ Len(words[p]) = 2
    /\ pc[i] = "done" /\ op[i] \in Queries

\* C13 as stated: the word a ledger row assigns to date D carries D as its
\* used_at, whatever the clock did between the caller's today_str and the pick.
C13_StampIsCallersToday ==
  \A p \in Pools : \A r \in daily[p] :
    r.word_id \in DOMAIN words[p] => words[p][r.word_id].used_at = r.date

\* the step in which the pick of call i ends with a storage error
PickFailStep(i) ==
  /\ pc[i] \in {"begin", "select", "commit"}
  /\ pc'[i] = "done"
  /\ failures' # failures

\* C14: a storage error at BEGIN, at the SELECT or UPDATE, or at COMMIT of
\* the pick ends the pick with no row returned, the word tables and the
\* ledgers as they were (the pool not locked before BEGIN, locked by this call
\* alone after it, so as they were when the pick started), the write lock not
\* held by the call, and the error passed on: a 500 from the force handler, the
\* logged error from the job.
C14_PickFailureRollsBack ==
  [][ \A i \in Procs :
        PickFailStep(i) =>
          /\ words' = words
          /\ daily' = daily
          /\ pc[i] # "begin" => lock = i
          /\ lock' # i
          /\ row'[i] = 0
          /\ ret'[i] = IF op[i] = "force"
                       THEN Ret("http500", "", NoWord, 0)
                       ELSE Ret("return", "error", NoWord, 0)
    ]_vars

\* the pick of a job failed with a storage error on a pool that held an
\* unused word: the job logged the error, no word is used, the date unassigned
C14_Witness ==
  \E i \in Procs :
    /\ pc[i] = "done" /\ op[i] = "job"
    /\ ret[i] = Ret("return", "error", NoWord, 0)
    /\ row[i] = 0
    /\ words[pool[i]] # <<>>
    /\ UnusedIds(words[pool[i]]) = DOMAIN words[pool[i]]
    /\ LedgerIds(daily[pool[i]], today_str[i]) = {}
    /\ lock # i

\* the step in which the ledger write of call i ends with a storage error
SaveFailStep(i) ==
  /\ pc[i] \in {"save", "save_commit"}
  /\ pc'[i] = "done"
  /\ failures' # failures

\* the ledger write of call i failed after its pick had committed
SaveFailed(i) == StorageFailed(i) /\ row[i] # 0

\* C15: a storage error at the INSERT or the commit of the ledger write leaves
\* the picked word used, the word tables and every ledger row as they were,
\* the write lock not held by the call, and the error reported (500 from the
\* force handler, the logged error from the job); from then on the picked
\* word is used in every state and no later step makes it unused.
C15_SaveFailureKeepsWordConsumed ==
  [][ \A i \in Procs :
        /\ SaveFailStep(i) =>
             /\ words[pool[i]][row[i]].used = 1
             /\ words' = words
             /\ daily' = daily
             /\ lock' # i
             /\ ret'[i] = IF op[i] = "force"
                          THEN Ret("http500", "", NoWord, 0)
                          ELSE Ret("return", "error", NoWord, 0)
        /\ SaveFailed(i) =>
             /\ words[pool[i]][row[i]].used = 1
             /\ row[i] \in DOMAIN words'[pool[i]]
             /\ words'[pool[i]][row[i]].used = 1
    ]_vars

\* the ledger write of a call failed; its word is used and assigned to no
\* date, and a later call for the same date picked and assigned another word
C15_Witness ==
  \E i \in Procs : \E j \in Procs :
    /\ SaveFailed(i)
    /\ words[pool[i]][row[i]].used = 1
    /\ \A r \in daily[pool[i]] : r.word_id # row[i]
    /\ pc[j] = "done" /\ i \in obs[j].after
    /\ pool[j] = pool[i] /\ today_str[j] = today_str[i]
    /\ ret[j].kind = "return" /\ row[j] # 0 /\ row[j] # row[i]
    /\ LedgerIds(daily[pool[i]], today_str[i]) = {row[j]}

\* What a step of call i does to the tables and where it takes the call,
\* written without reference to the entry point: it depends on the position
\* of the call, on the tables, on the date and row the call holds, and on
\* whether a storage error was raised.
SameLogicStep(i) ==
  LET p == pool'[i]
      failed == failures' # failures
      quiet == words' = words /\ daily' = daily
  IN CASE pc[i] = "idle" ->
            /\ quiet
            /\ today_str'[i] = clock
            /\ pc'[i] = IF failed \/ DailyJoin(daily[p], words[p], clock) # {}
                        THEN "done" ELSE "begin"
       [] pc[i] = "begin" ->
            /\ quiet
            /\ pc'[i] = IF failed THEN "done" ELSE "select"
       [] pc[i] = "select" ->
            /\ quiet
            /\ pc'[i] = IF failed \/ UnusedIds(words[p]) = {} THEN "done" ELSE "commit"
            /\ pc'[i] = "commit" => row'[i] \in UnusedIds(words[p]) /\ now'[i] = clock
       [] pc[i] = "commit" ->
            IF failed THEN quiet /\ pc'[i] = "done"
            ELSE /\ words' = [words EXCEPT ![p] = MarkUsed(@, row[i], now[i])]
                 /\ daily' = daily
                 /\ pc'[i] = "save"
       [] pc[i] = "save" ->
            /\ quiet
            /\ pc'[i] = IF failed THEN "done" ELSE "save_commit"
       [] pc[i] = "save_commit" ->
            /\ pc'[i] = "done"
            /\ words' = words
            /\ daily' = IF failed THEN daily
                        ELSE [daily EXCEPT ![p] = InsertOrReplace(@, today_str[i], row[i])]
       [] OTHER -> FALSE

\* C16: the job and the force handler run the same logic: every step of a
\* call of either entry point changes the tables and moves the call on as
\* SameLogicStep says, which does not look at the entry point; only the report
\* differs: the job returns nothing but a log line (or lets the error of its
\* lookup out), the force handler returns the word or answers 404 / 500.
C16_JobAndForceSameLogic ==
  [][ \A i \in Procs :
        (pc'[i] # pc[i] /\ op'[i] \in Ensures) =>
          /\ SameLogicStep(i)
          /\ pc'[i] = "done" =>
               IF op'[i] = "job"
               THEN ret'[i].kind \in {"return", "raise"} /\ (ret'[i].kind = "return" => ret'[i].log # "")
               ELSE ret'[i].kind \in {"return", "http404", "http500"} /\ ret'[i].log = ""
    ]_vars

\* flags, dates and ledger of pool p, without the texts
Shape(p) ==
  <<[k \in DOMAIN words[p] |-> <<words[p][k].used, words[p][k].used_at>>], daily[p]>>

\* a job on one pool and a force call on the other started on tables of the
\* same shape with the same date and picked the same row: the two pools have
\* the same shape again, a used word assigned to the date
C16_Witness ==
  \E i \in Procs : \E j \in Procs :
    /\ op[i] = "job" /\ op[j] = "force"
    /\ pc[i] = "done" /\ pc[j] = "done"
    /\ pool[i] # pool[j] /\ today_str[i] = today_str[j]
    /\ row[i] # 0 /\ row[i] = row[j]
    /\ ret[i].log = "chosen" /\ ret[j].kind = "return"
    /\ Shape(pool[i]) = Shape(pool[j])
    /\ LedgerIds(daily[pool[i]], today_str[i]) = {row[i]}

\* call i has passed its lookup and has not ended yet
Pending(i) == pc[i] \in {"begin", "select", "commit", "save", "save_commit"}

\* the write lock is held, if at all, by a call inside a transaction
LockHeldInsideTransaction ==
  /\ lock # 0 => pc[lock] \in {"select", "commit", "save_commit"}
  /\ \A i \in Procs : pc[i] \in {"select", "commit", "save_commit"} => lock = i

\* C17: the write lock is never held by a call that is outside its
\* transaction, in particular not by one that has returned or failed (after
\* the 404 and after a storage error too), and under fair scheduling every
\* pending call ends, by returning or by failing.
C17_LockReleasedAndCallsEnd ==
  /\ []LockHeldInsideTransaction
  /\ \A i \in Procs : Pending(i) ~> pc[i] = "done"

\* a pick ended with a storage error and the pick of another call for the
\* same pool ended with the 404 or with a word; both calls have ended and the
\* lock is free
C17_Witness ==
  \E i \in Procs : \E j \in Procs :
    /\ i # j /\ pool[i] = pool[j]
    /\ pc[i] = "done" /\ op[i] = "job" /\ ret[i].log = "error" /\ row[i] = 0
    /\ pc[j] = "done" /\ (EmptyPool(j) \/ Picked(j))
    /\ lock = 0

\* C18: in every reachable state and for each pool, two ledger rows with
\* different dates hold different words.
C18_DistinctDatesDistinctWords ==
  \A p \in Pools : \A r1 \in daily[p] : \A r2 \in daily[p] :
    r1.date # r2.date => r1.word_id # r2.word_id

\* a job and a force call have assigned words of one pool to two dates
C18_Witness ==
  \E i \in Procs : \E j \in Procs :
    /\ op[i] = "job" /\ op[j] = "force"
    /\ pc[i] = "done" /\ pc[j] = "done"
    /\ pool[i] = pool[j] /\ today_str[i] # today_str[j]
    /\ [date |-> today_str[i], word_id |-> row[i]] \in daily[pool[i]]
    /\ [date |-> today_str[j], word_id |-> row[j]] \in daily[pool[i]]
    /\ row[i] # 0 /\ row[j] # 0

\* C19: in every reachable state and for each pool, every ledger row holds the
\* id of a row of that pool's word table whose used flag is set, and every
\* word record that a lookup of an assigned date returned (from the job, the
\* force handler or the today query) has used = true.
C19_LedgerWordsAreConsumed ==
  /\ \A p \in Pools : \A r \in daily[p] :
       r.word_id \in DOMAIN words[p] /\ words[p][r.word_id].used = 1
  /\ \A i \in Procs :
       (pc[i] = "done" /\ op[i] \in Ensures \cup {"today"}
          /\ ret[i].kind = "return" /\ ret[i].word.id # 0)
         => ret[i].word.used

\* a date of a pool is assigned, the pool holds an unused word as well, and
\* the today query returned the assigned word of its date
C19_Witness ==
  \E i \in Procs :
    /\ pc[i] = "done" /\ op[i] = "today" /\ ret[i].kind = "return"
    /\ Cardinality(daily[pool[i]]) = 1
    /\ UnusedIds(words[pool[i]]) # {}
    /\ [date |-> today_str[i], word_id |-> ret[i].word.id] \in daily[pool[i]]
    /\ ret[i].word.used

\* call i of the force handler has returned a word
ForceReturned(i) == pc[i] = "done" /\ op[i] = "force" /\ ret[i].kind = "return"

\* C20 as stated: once every started call of the job or the force handler
\* for a pool and date has ended, the ledger holds for that date the word
\* each force call for it returned; two force calls that returned a word for
\* the same pool and date returned the same word.
C20_ForceCallsAgree ==
  \A i \in Procs :
    ForceReturned(i) =>
      /\ (\A k \in Procs :
            (op[k] \in Ensures /\ pool[k] = pool[i] /\ today_str[k] = today_str[i])
              => pc[k] = "done")
           => LedgerIds(daily[pool[i]], today_str[i]) = {ret[i].word.id}
      /\ \A j \in Procs :
           (ForceReturned(j) /\ pool[j] = pool[i] /\ today_str[j] = today_str[i])
             => ret[j].word.id = ret[i].word.id

\* calls i and j work on the same pool and date
SameDate(i, j) == pool[i] = pool[j] /\ today_str[i] = today_str[j]

\* every other call for the pool and date of call i whose lookup found no
\* row had ended when call i started
NoEarlierLookupPending(i, j) ==
  \A k \in Procs \ {i, j} :
    (pc[k] # "idle" /\ op[k] \in Ensures /\ SameDate(k, i) /\ ~obs[k].found)
      => k \in obs[i].after

\* C20 amended: a force call that returns a word returns the word the ledger
\* holds for its date at the moment it returns (the row it found or the row
\* it wrote); two force calls that returned a word for the same pool and date
\* returned the same word when the second started after the first had ended
\* and every other call that found no row for the date had ended before the
\* first started.
C20_ForceReturnsLedgerAtReturn ==
  \A i \in Procs :
    ForceReturned(i) =>
      /\ obs[i].ledger = {ret[i].word.id}
      /\ \A j \in Procs :
           (ForceReturned(j) /\ SameDate(i, j) /\ i \in obs[j].after
              /\ NoEarlierLookupPending(i, j))
             => ret[j].word.id = ret[i].word.id

\* two overlapping force calls for one pool and date found no row, each
\* returned the word it picked, and the ledger holds the one written last
C20_Witness ==
  \E i \in Procs : \E j \in Procs :
    /\ ForceReturned(i) /\ ForceReturned(j) /\ SameDate(i, j)
    /\ i \notin obs[j].after /\ j \notin obs[i].after
    /\ row[i] # 0 /\ row[j] # 0 /\ row[i] # row[j]
    /\ ret[i].word.id = row[i] /\ ret[j].word.id = row[j]
    /\ obs[i].ledger = {row[i]} /\ obs[j].ledger = {row[j]}
    /\ LedgerIds(daily[pool[i]], today_str[i]) = {row[j]}

====
